---- MODULE Spec2Model ----
(***************************************************************************)
(* Model of the file-tree-scanner: FileTreeScanner.ScanDirectory/scanNode  *)
(* (internal/scanner), StandardTreeRenderer (internal/renderer) and the    *)
(* completion handler of FileTreeApp.scanDirectoryAsync (internal/ui).     *)
(*                                                                         *)
(* Strings are sequences of one-character strings so that                  *)
(* strings.Contains, strings.HasPrefix and the byte-wise "<" of Go are     *)
(* computed and not assumed.  Paths are joined with the separator of a     *)
(* Unix build.                                                             *)
(***************************************************************************)
EXTENDS Integers, Sequences, FiniteSets, TLC

(***************************************************************************)
(* Bounds of the model                                                     *)
(***************************************************************************)
\* configured MaxDepth values tried: -1 .. MaxCfgDepth, and DeepCfgDepth
MaxCfgDepth == 2
\* nesting of the directory chain under "deep" (directories below the root)
ChainDepth == 53
\* the listing of the directory "huge" has EntryLimit + LargeExtra entries,
\* the first LargeHidden of them hidden; that of "full" has EntryLimit
\* entries, all hidden but the last LargeVisible; in both every
\* LargeDirEvery-th entry is a directory
LargeExtra == 1
LargeHidden == 2
LargeVisible == 100
LargeDirEvery == 250

(***************************************************************************)
(* Program constants                                                       *)
(***************************************************************************)
DepthCeiling == 50
EntryLimit == 10000
EntryKeep == 1000
DefaultMaxDepth == 15
SeparatorWidth == 50

(***************************************************************************)
(* Strings                                                                 *)
(***************************************************************************)
Byte ==
  " " :> 32 @@ "$" :> 36 @@ "." :> 46 @@ "/" :> 47 @@
  "0" :> 48 @@ "1" :> 49 @@ "2" :> 50 @@ "3" :> 51 @@ "4" :> 52 @@ "5" :> 53 @@
  "6" :> 54 @@ "7" :> 55 @@ "8" :> 56 @@ "9" :> 57 @@
  ":" :> 58 @@ "=" :> 61 @@
  "B" :> 66 @@ "D" :> 68 @@ "F" :> 70 @@ "I" :> 73 @@ "M" :> 77 @@ "N" :> 78 @@
  "O" :> 79 @@ "P" :> 80 @@ "R" :> 82 @@ "S" :> 83 @@ "T" :> 84 @@ "V" :> 86 @@
  "W" :> 87 @@ "\\" :> 92 @@ "a" :> 97 @@ "b" :> 98 @@ "c" :> 99 @@ "d" :> 100 @@
  "e" :> 101 @@ "f" :> 102 @@ "g" :> 103 @@ "h" :> 104 @@ "i" :> 105 @@
  "j" :> 106 @@ "k" :> 107 @@ "l" :> 108 @@ "m" :> 109 @@ "n" :> 110 @@
  "o" :> 111 @@ "p" :> 112 @@ "q" :> 113 @@ "r" :> 114 @@ "s" :> 115 @@
  "t" :> 116 @@ "u" :> 117 @@ "v" :> 118 @@ "w" :> 119 @@ "x" :> 120 @@
  "y" :> 121 @@ "z" :> 122 @@ "~" :> 126

\* Go's s < t on strings: lexicographic on bytes
RECURSIVE StrLess(_, _)
StrLess(s, t) ==
  IF t = <<>> THEN FALSE
  ELSE IF s = <<>> THEN TRUE
  ELSE IF Byte[Head(s)] # Byte[Head(t)] THEN Byte[Head(s)] < Byte[Head(t)]
  ELSE StrLess(Tail(s), Tail(t))

\* strings.Contains(s, sub)
Contains(s, sub) ==
  \/ sub = <<>>
  \/ \E i \in 1..(Len(s) - Len(sub) + 1) :
       s[i] = sub[1] /\ SubSeq(s, i, i + Len(sub) - 1) = sub

\* strings.HasPrefix(s, p)
HasPrefix(s, p) == Len(s) >= Len(p) /\ SubSeq(s, 1, Len(p)) = p

Separator == <<"/">>

\* filepath.Join(dir, name) for a clean dir and an entry name
Join(dir, name) == dir \o Separator \o name

\* filepath.Base(path) for a clean, non-empty path
RECURSIVE Base(_)
Base(p) ==
  IF ~Contains(p, Separator) THEN p
  ELSE Base(Tail(p))

(***************************************************************************)
(* The file system the scanner runs on                                     *)
(***************************************************************************)
File(name) == [name |-> name, isDir |-> FALSE, readable |-> TRUE, kids |-> {}]
Dir(name, kids) == [name |-> name, isDir |-> TRUE, readable |-> TRUE, kids |-> kids]
NoAccessDir(name) == [name |-> name, isDir |-> TRUE, readable |-> FALSE, kids |-> {}]

sRecovery == <<"R", "e", "c", "o", "v", "e", "r", "y">>

RECURSIVE Chain(_)
Chain(n) == IF n <= 1 THEN Dir(<<"d">>, {}) ELSE Dir(<<"d">>, {Chain(n - 1)})

MixedTree ==
  Dir(<<"r">>,
      { Dir(<<".", "h">>, {File(<<"k">>)}),
        File(<<".", "e">>),
        Dir(sRecovery, {File(<<"x">>)}),
        File(<<"a">>),
        Dir(<<"b">>, {File(<<"o">> \o sRecovery), File(<<"y">>), Dir(<<"B">>, {})}),
        NoAccessDir(<<"c">>),
        Dir(<<"d">>, {Dir(<<"e">>, {Dir(<<"f">>, {File(<<"g">>)}), File(<<"a">>)})}) })

ExampleTree ==
  Dir(<<"r", "o", "o", "t">>,
      { Dir(<<"b">>, {File(<<"z", ".", "t", "x", "t">>), File(<<"a", ".", "t", "x", "t">>)}),
        File(<<"a", ".", "l", "o", "g">>) })

DeepTree == Dir(<<"d", "e", "e", "p">>, {Chain(ChainDepth)})

TopLevel ==
  { MixedTree, ExampleTree, DeepTree,
    Dir(<<"e">>, {}),
    NoAccessDir(<<"u">>),
    Dir(sRecovery, {File(<<"a">>), Dir(<<"b">>, {File(<<"c">>)})}),
    File(<<"f">>) }

\* every path of the file system with its entry
RECURSIVE PathsUnder(_, _)
PathsUnder(e, p) ==
  {<<p, e>>} \cup UNION {PathsUnder(k, Join(p, k.name)) : k \in e.kids}

FsTable == UNION {PathsUnder(e, e.name) : e \in TopLevel}

FsPaths == {pe[1] : pe \in FsTable}

FsEntry(p) == (CHOOSE pe \in FsTable : pe[1] = p)[2]

(***************************************************************************)
(* Two directories with very long listings: "huge" with more entries than  *)
(* EntryLimit and "full" with exactly EntryLimit entries.  Entry k is      *)
(* named by the five digits of k, behind a '.' for the hidden entries,     *)
(* which come first, so that the order of k is the order of the names; an  *)
(* entry that is a directory is empty.                                     *)
(***************************************************************************)
sHuge == <<"h", "u", "g", "e">>
sFull == <<"f", "u", "l", "l">>
LargeRoots == {sHuge, sFull}

Digit == <<"0", "1", "2", "3", "4", "5", "6", "7", "8", "9">>
DigitValue(c) == CHOOSE d \in 0..9 : Digit[d + 1] = c

Numeral(k) ==
  <<Digit[((k \div 10000) % 10) + 1], Digit[((k \div 1000) % 10) + 1],
    Digit[((k \div 100) % 10) + 1], Digit[((k \div 10) % 10) + 1], Digit[(k % 10) + 1]>>

LargeSize(root) == IF root = sHuge THEN EntryLimit + LargeExtra ELSE EntryLimit

LargeHiddenCount(root) == IF root = sHuge THEN LargeHidden ELSE EntryLimit - LargeVisible

LargeEntry(root, k) ==
  [name |-> (IF k <= LargeHiddenCount(root) THEN <<".">> ELSE <<>>) \o Numeral(k),
   isDir |-> k % LargeDirEvery = 0]

LargeListing(root) ==
  SubSeq([k \in 1..LargeSize(root) |-> LargeEntry(root, k)], 1, LargeSize(root))

InLarge(p) == \E r \in LargeRoots : p = r \/ HasPrefix(p, r \o Separator)

\* the number an entry path ends with (0 if it ends otherwise)
LargeIndex(p) ==
  LET n == Len(p)
      v(j) == IF p[n - j] \in {Digit[d] : d \in 1..10} THEN DigitValue(p[n - j]) ELSE 0
  IN IF n < 5 THEN 0
     ELSE 10000 * v(4) + 1000 * v(3) + 100 * v(2) + 10 * v(1) + v(0)

\* the entry at path p below a large root, or NoEntry
NoEntry == [name |-> <<>>, isDir |-> FALSE]
LargeLookup(p) ==
  LET k == LargeIndex(p)
      hits == {r \in LargeRoots :
                 k \in 1..LargeSize(r) /\ p = Join(r, LargeEntry(r, k).name)}
  IN IF p \in LargeRoots THEN [name |-> p, isDir |-> TRUE]
     ELSE IF hits # {} THEN LargeEntry(CHOOSE r \in hits : TRUE, k)
     ELSE NoEntry

(***************************************************************************)
(* A directory whose nesting never ends: "endless" and every directory     *)
(* below it hold exactly one entry, the directory "d"                      *)
(***************************************************************************)
sEndless == <<"e", "n", "d", "l", "e", "s", "s">>

\* p is endless, endless/d, endless/d/d, ...
InEndless(p) ==
  /\ HasPrefix(p, sEndless)
  /\ (Len(p) - Len(sEndless)) % 2 = 0
  /\ \A i \in (Len(sEndless) + 1)..Len(p) :
       p[i] = IF (i - Len(sEndless)) % 2 = 1 THEN "/" ELSE "d"

(***************************************************************************)
(* Errors                                                                  *)
(***************************************************************************)
Nil == [msg |-> "nil"]
Canceled == [msg |-> "context canceled"]
DeadlineExceeded == [msg |-> "context deadline exceeded"]
ErrNotExist == [msg |-> "no such file or directory"]
ErrPermission == [msg |-> "permission denied"]

\* fmt.Errorf(msg) and fmt.Errorf(msg + ": %w", err)
Errorf(msg) == [msg |-> msg]
ErrorfW(msg, err) == [msg |-> msg, wrapped |-> err]

\* errors.Unwrap chain: does err wrap (or equal) target
RECURSIVE ErrorsIs(_, _)
ErrorsIs(err, target) ==
  \/ err = target
  \/ "wrapped" \in DOMAIN err /\ ErrorsIs(err.wrapped, target)

(***************************************************************************)
(* os.Stat and os.ReadDir                                                  *)
(***************************************************************************)
NameLess(a, b) == StrLess(a.name, b.name)

\* the listing of os.ReadDir is sorted by filename
RECURSIVE InsertByName(_, _)
InsertByName(x, s) ==
  IF s = <<>> THEN <<x>>
  ELSE IF NameLess(x, Head(s)) THEN <<x>> \o s
  ELSE <<Head(s)>> \o InsertByName(x, Tail(s))

RECURSIVE SortByName(_)
SortByName(s) ==
  IF s = <<>> THEN <<>> ELSE InsertByName(Head(s), SortByName(Tail(s)))

RECURSIVE SetToSeq(_)
SetToSeq(S) ==
  IF S = {} THEN <<>>
  ELSE LET x == CHOOSE y \in S : TRUE IN <<x>> \o SetToSeq(S \ {x})

\* the listing of every directory of FsTable, sorted by filename
FsListings ==
  {<<pe[1], SortByName(SetToSeq({[name |-> k.name, isDir |-> k.isDir] : k \in pe[2].kids}))>> :
     pe \in {qe \in FsTable : qe[2].isDir}}

\* os.Stat(path): the error, and FileInfo.IsDir()
Stat(path) ==
  IF InEndless(path) THEN [err |-> Nil, isDir |-> TRUE]
  ELSE IF InLarge(path)
  THEN IF LargeLookup(path) = NoEntry THEN [err |-> ErrNotExist, isDir |-> FALSE]
       ELSE [err |-> Nil, isDir |-> LargeLookup(path).isDir]
  ELSE IF path \in FsPaths
  THEN [err |-> Nil, isDir |-> FsEntry(path).isDir]
  ELSE [err |-> ErrNotExist, isDir |-> FALSE]

\* os.ReadDir(path): the entries sorted by filename, or an error
ReadDir(path) ==
  IF InEndless(path) THEN [err |-> Nil, entries |-> <<[name |-> <<"d">>, isDir |-> TRUE]>>]
  ELSE IF InLarge(path)
  THEN IF LargeLookup(path) = NoEntry THEN [err |-> ErrNotExist, entries |-> <<>>]
       ELSE IF ~LargeLookup(path).isDir THEN [err |-> ErrPermission, entries |-> <<>>]
       ELSE [err |-> Nil,
             entries |-> IF path \in LargeRoots THEN LargeListing(path) ELSE <<>>]
  ELSE IF path \notin FsPaths THEN [err |-> ErrNotExist, entries |-> <<>>]
  ELSE IF ~FsEntry(path).isDir \/ ~FsEntry(path).readable
  THEN [err |-> ErrPermission, entries |-> <<>>]
  ELSE [err |-> Nil, entries |-> (CHOOSE pl \in FsListings : pl[1] = path)[2]]

(***************************************************************************)
(* internal/config                                                         *)
(***************************************************************************)
DefaultConfig == [MaxDepth |-> DefaultMaxDepth, ShowHidden |-> FALSE, SortDirs |-> TRUE]

\* MaxDepth above the safety ceiling (Configs also holds MaxDepth at the ceiling)
DeepCfgDepth == DepthCeiling + MaxCfgDepth

Configs ==
  {DefaultConfig} \cup
  [MaxDepth : (-1 .. MaxCfgDepth) \cup {DepthCeiling, DeepCfgDepth},
   ShowHidden : BOOLEAN, SortDirs : BOOLEAN]

(***************************************************************************)
(* internal/scanner: the pure helpers of scanNode                          *)
(***************************************************************************)
problematicPaths ==
  << <<"S", "y", "s", "t", "e", "m", " ", "V", "o", "l", "u", "m", "e", " ",
       "I", "n", "f", "o", "r", "m", "a", "t", "i", "o", "n">>,
     <<"$", "R", "e", "c", "y", "c", "l", "e", ".", "B", "i", "n">>,
     <<"$", "W", "I", "N", "D", "O", "W", "S", ".", "~", "B", "T">>,
     <<"R", "e", "c", "o", "v", "e", "r", "y">>,
     <<"P", "r", "o", "g", "r", "a", "m", "D", "a", "t", "a", "\\",
       "M", "i", "c", "r", "o", "s", "o", "f", "t", "\\",
       "W", "i", "n", "d", "o", "w", "s", " ", "D", "e", "f", "e", "n", "d", "e", "r">>,
     <<"W", "i", "n", "d", "o", "w", "s", "\\", "S", "y", "s", "t", "e", "m", "3", "2",
       "\\", "c", "o", "n", "f", "i", "g">> >>

\* isProblematicPath with strings.HasPrefix for strings.Contains
isProblematicPathPrefix(path) ==
  \E k \in 1..Len(problematicPaths) : HasPrefix(path, problematicPaths[k])

\* isProblematicPath applied to the last component of the path only
isProblematicPathBase(path) ==
  \E k \in 1..Len(problematicPaths) : Contains(Base(path), problematicPaths[k])

isProblematicPath(path) ==
  \E k \in 1..Len(problematicPaths) : Contains(path, problematicPaths[k])

\* filterHiddenEntries that drops hidden files only
filterHiddenFilesOnly(entries) ==
  SelectSeq(entries, LAMBDA e : e.isDir \/ ~HasPrefix(e.name, <<".">>))

filterHiddenEntries(entries) ==
  SelectSeq(entries, LAMBDA e : ~HasPrefix(e.name, <<".">>))

\* EntryLess that puts the files first
EntryLessFilesFirst(a, b) ==
  IF a.isDir # b.isDir THEN b.isDir ELSE StrLess(a.name, b.name)

\* the less function handed to sort.Slice
EntryLess(a, b) ==
  IF a.isDir # b.isDir THEN a.isDir ELSE StrLess(a.name, b.name)

\* sort.Slice(entries, less): the names of one directory are distinct, so
\* less is a strict total order and the sorted slice is unique
sortEntries(entries) ==
  LET n == Len(entries)
      \* before[i]: how many entries come before entries[i]
      before == SubSeq([i \in 1..n |->
                          Cardinality({j \in 1..n : EntryLess(entries[j], entries[i])})],
                       1, n)
  IN SubSeq([k \in 1..n |-> entries[CHOOSE i \in 1..n : before[i] = k - 1]], 1, n)

\* limitEntries that cuts a listing of EntryLimit entries already
limitEntriesAtLimit(entries) ==
  IF Len(entries) >= EntryLimit THEN SubSeq(entries, 1, EntryKeep) ELSE entries

\* scanNode lines 114-118
limitEntries(entries) ==
  IF Len(entries) > EntryLimit THEN SubSeq(entries, 1, EntryKeep) ELSE entries

\* depthExceeded with >= for >
depthExceededOffByOne(cfg, depth) == cfg.MaxDepth >= 0 /\ depth >= cfg.MaxDepth

\* scanNode line 98
depthExceeded(cfg, depth) == cfg.MaxDepth >= 0 /\ depth > cfg.MaxDepth

\* ceilingExceeded without the safety ceiling
ceilingExceededNever(depth) == FALSE

\* scanNode line 103
ceilingExceeded(depth) == depth > DepthCeiling

\* isContextErr that forgets context.DeadlineExceeded
isContextErrCanceledOnly(err) == err = Canceled

\* scanNode line 165
isContextErr(err) == err = Canceled \/ err = DeadlineExceeded

\* scanNode lines 114-128: the entries the loop iterates over
prepareEntries(cfg, entries) ==
  LET limited == limitEntries(entries)
      shown == IF ~cfg.ShowHidden THEN filterHiddenEntries(limited) ELSE limited
  IN IF cfg.SortDirs THEN sortEntries(shown) ELSE shown

(***************************************************************************)
(* internal/renderer.  A rune outside ASCII is written as one element      *)
(* naming its code point.                                                  *)
(***************************************************************************)
folderIcon == <<"U+1F4C1">>
fileIcon == <<"U+1F4C4">>
treeBranch == <<"U+251C", "U+2500", "U+2500">>
treeLastBranch == <<"U+2514", "U+2500", "U+2500">>
treeSpacing == <<" ", " ", " ", " ">>
treeConnection == <<"U+2502", " ", " ", " ">>
sHeader == <<"F", "i", "l", "e", " ", "T", "r", "e", "e", " ", "f", "o", "r", ":", " ">>

\* strings.Repeat(s, n)
RECURSIVE Repeat(_, _)
Repeat(s, n) == IF n <= 0 THEN <<>> ELSE s \o Repeat(s, n - 1)

\* renderNode(builder, node, prefix, isRoot): the text it writes;
\* renderChildren is its loop over node.Children from index i on
RECURSIVE renderNode(_, _, _, _)
RECURSIVE renderChildren(_, _, _, _, _)
\* renderNode that writes a line for the root as well
renderNodeWithRoot(heap, n, prefix, isRoot) ==
  ((IF heap[n].IsDir THEN folderIcon ELSE fileIcon) \o <<" ">> \o heap[n].Name
   \o (IF heap[n].IsDir THEN <<"/">> ELSE <<>>) \o <<"\n">>)
  \o renderChildren(heap, n, 1, prefix, isRoot)

renderNode(heap, n, prefix, isRoot) ==
  (IF isRoot THEN <<>>
   ELSE (IF heap[n].IsDir THEN folderIcon ELSE fileIcon) \o <<" ">> \o heap[n].Name
        \o (IF heap[n].IsDir THEN <<"/">> ELSE <<>>) \o <<"\n">>)
  \o renderChildren(heap, n, 1, prefix, isRoot)

\* renderChildren that treats the first child of the root like any other
renderChildrenNoFirst(heap, n, i, prefix, isRoot) ==
  IF i > Len(heap[n].Children) THEN <<>>
  ELSE LET isLast == i = Len(heap[n].Children)
           connector == IF isLast THEN treeLastBranch \o <<" ">> ELSE treeBranch \o <<" ">>
           nextPrefix == IF isLast THEN prefix \o treeSpacing ELSE prefix \o treeConnection
       IN prefix \o connector
          \o renderNode(heap, heap[n].Children[i], nextPrefix, FALSE)
          \o renderChildren(heap, n, i + 1, prefix, isRoot)

\* renderChildren that never uses the connector of a last child
renderChildrenBranchOnly(heap, n, i, prefix, isRoot) ==
  IF i > Len(heap[n].Children) THEN <<>>
  ELSE LET isLast == i = Len(heap[n].Children)
           first == isRoot /\ i = 1
           connector == IF first THEN <<>> ELSE treeBranch \o <<" ">>
           nextPrefix == IF first THEN <<>>
                         ELSE IF isLast THEN prefix \o treeSpacing
                         ELSE prefix \o treeConnection
       IN prefix \o connector
          \o renderNode(heap, heap[n].Children[i], nextPrefix, FALSE)
          \o renderChildren(heap, n, i + 1, prefix, isRoot)

\* renderChildren that continues every prefix with blanks
renderChildrenBlankPrefix(heap, n, i, prefix, isRoot) ==
  IF i > Len(heap[n].Children) THEN <<>>
  ELSE LET isLast == i = Len(heap[n].Children)
           first == isRoot /\ i = 1
           connector == IF first THEN <<>>
                        ELSE IF isLast THEN treeLastBranch \o <<" ">>
                        ELSE treeBranch \o <<" ">>
           nextPrefix == IF first THEN <<>> ELSE prefix \o treeSpacing
       IN prefix \o connector
          \o renderNode(heap, heap[n].Children[i], nextPrefix, FALSE)
          \o renderChildren(heap, n, i + 1, prefix, isRoot)

renderChildren(heap, n, i, prefix, isRoot) ==
  IF i > Len(heap[n].Children) THEN <<>>
  ELSE LET isLast == i = Len(heap[n].Children)
           first == isRoot /\ i = 1
           connector == IF first THEN <<>>
                        ELSE IF isLast THEN treeLastBranch \o <<" ">>
                        ELSE treeBranch \o <<" ">>
           nextPrefix == IF first THEN <<>>
                         ELSE IF isLast THEN prefix \o treeSpacing
                         ELSE prefix \o treeConnection
       IN prefix \o connector
          \o renderNode(heap, heap[n].Children[i], nextPrefix, FALSE)
          \o renderChildren(heap, n, i + 1, prefix, isRoot)

\* RenderTree(root); root 0 is the nil tree
RenderTree(heap, root) ==
  IF root = 0 THEN <<>>
  ELSE sHeader \o heap[root].Path \o <<"\n">>
       \o Repeat(<<"=">>, SeparatorWidth) \o <<"\n", "\n">>
       \o renderNode(heap, root, <<>>, TRUE)

(***************************************************************************)
(* State                                                                   *)
(***************************************************************************)
VARIABLES
  pc,            \* where the scan stands: "idle", "call", "scanning", "returned", "handled"
  config,        \* FileTreeScanner.config
  path,          \* the path handed to ScanDirectory
  ctxErr,        \* ctx.Err(): Nil while ctx.Done() is open
  nodes,         \* the TreeNode values allocated, in order of allocation
  stack,         \* the scanNode invocations, innermost last
  result,        \* the *ScanResult returned by ScanDirectory (NilResult: nil)
  err,           \* the error returned by ScanDirectory
  statCalls,     \* the paths handed to os.Stat, in order
  readDirCalls,  \* the paths handed to os.ReadDir, in order
  polls,         \* number of selects on ctx.Done() executed
  cancelAt,      \* value of polls when ctx became done (-1: not done)
  doneAt,        \* the nodes allocated and directories listed when ctx became done
  statusLabel,   \* FileTreeApp.statusLabel text
  dialogs,       \* the dialogs shown, in order
  currentResult, \* FileTreeApp.currentResult
  treeData,      \* FileTreeApp.treeData
  scans,         \* the scans requested through scanDirectoryAsync, in order of request
  active,        \* the request whose goroutine is inside ScanDirectory (0: none)
  uiQueue,       \* the completion handlers handed to fyne.Do and not yet run
  shownScan,     \* the request whose result currentResult holds (0: none)
  clipboard,     \* the content of the clipboard
  written,       \* the content of the file written last by Save to File
  exports        \* number of uses of Save to File and Copy to Clipboard

scanVars == <<nodes, stack, result, err, statCalls, readDirCalls, polls>>
guiVars == <<statusLabel, dialogs, currentResult, treeData>>
exportVars == <<clipboard, written, exports>>
asyncVars == <<scans, active, uiQueue, shownScan, exportVars>>
vars == <<pc, config, path, ctxErr, nodes, stack, result, err, statCalls,
          readDirCalls, polls, cancelAt, doneAt, statusLabel, dialogs, currentResult, treeData,
          scans, active, uiQueue, shownScan, clipboard, written, exports>>

NilResult == [isNil |-> TRUE]

\* a clipboard or a file that holds no text of the application
NoText == [set |-> FALSE]

\* the paths a scan is asked for: the empty path, a path that does not
\* exist, the directory r/Recovery, and every top-level entry of the file
\* system
ScanPaths == {<<>>, <<"m">>, Join(<<"r">>, sRecovery)} \cup {e.name : e \in TopLevel}

\* the state after NewFileTreeApp(cfg), cfg one of the configurations C
InitWith(C) ==
  /\ pc = "idle"
  /\ config \in C
  /\ path = <<>>
  /\ ctxErr = Nil
  /\ nodes = <<>>
  /\ stack = <<>>
  /\ result = NilResult
  /\ err = Nil
  /\ statCalls = <<>>
  /\ readDirCalls = <<>>
  /\ polls = 0
  /\ cancelAt = -1
  /\ doneAt = [nodes |-> 0, lists |-> 0]
  /\ statusLabel = [text |-> "Application started. Ready to scan"]
  /\ dialogs = <<>>
  /\ currentResult = NilResult
  /\ treeData = [p \in {} |-> <<>>]
  /\ scans = <<>>
  /\ active = 0
  /\ uiQueue = <<>>
  /\ shownScan = 0
  /\ clipboard = NoText
  /\ written = NoText
  /\ exports = 0

Init == InitWith(Configs)

(***************************************************************************)
(* internal/scanner: ScanDirectory and scanNode                            *)
(***************************************************************************)
Top == stack[Len(stack)]

NewFrame(n, depth) ==
  [node |-> n, depth |-> depth, entries |-> <<>>, i |-> 0, nodeCount |-> 0,
   pc |-> "enter", retCount |-> 0, retErr |-> Nil]

\* return count, e from the invocation f
Return(f, count, e) == [f EXCEPT !.pc = "done", !.retCount = count, !.retErr = e]

SetTop(f) == SubSeq(stack, 1, Len(stack) - 1) \o <<f>>

\* rootCheck without the info.IsDir() test
rootCheckNoDirTest(p) ==
  IF p = <<>>
  THEN [err |-> Errorf("path cannot be empty"), stats |-> FALSE]
  ELSE IF Stat(p).err # Nil
  THEN [err |-> ErrorfW("failed to stat path", Stat(p).err), stats |-> TRUE]
  ELSE [err |-> Nil, stats |-> TRUE]

\* rootCheck that tests the path for emptiness only
rootCheckEmptyOnly(p) ==
  IF p = <<>>
  THEN [err |-> Errorf("path cannot be empty"), stats |-> FALSE]
  ELSE [err |-> Nil, stats |-> FALSE]

\* ScanDirectory lines 56-67: the root-level checks
rootCheck(p) ==
  IF p = <<>>
  THEN [err |-> Errorf("path cannot be empty"), stats |-> FALSE]
  ELSE IF Stat(p).err # Nil
  THEN [err |-> ErrorfW("failed to stat path", Stat(p).err), stats |-> TRUE]
  ELSE IF ~Stat(p).isDir
  THEN [err |-> Errorf("path is not a directory"), stats |-> TRUE]
  ELSE [err |-> Nil, stats |-> TRUE]

\* ScanDirectory lines 55-75, up to the call of scanNode
ScanDirectoryCall ==
  /\ pc = "call"
  /\ LET chk == rootCheck(path) IN
       /\ statCalls' = IF chk.stats THEN Append(statCalls, path) ELSE statCalls
       /\ IF chk.err # Nil
          THEN /\ result' = NilResult
               /\ err' = chk.err
               /\ pc' = "returned"
               /\ UNCHANGED <<nodes, stack>>
          ELSE /\ nodes' = <<[Path |-> path, Name |-> Base(path), IsDir |-> TRUE,
                              Children |-> <<>>, Parent |-> 0]>>
               /\ stack' = <<NewFrame(1, 0)>>
               /\ pc' = "scanning"
               /\ UNCHANGED <<result, err>>
  /\ UNCHANGED <<config, path, ctxErr, readDirCalls, polls, cancelAt, doneAt>>
  /\ UNCHANGED guiVars
  /\ UNCHANGED asyncVars

\* enterOutcome that hands the error of os.ReadDir to the caller
enterOutcomeReadErr(cfg, cerr, depth, dirPath) ==
  IF cerr # Nil
  THEN [ret |-> TRUE, count |-> 0, err |-> cerr, lists |-> FALSE, entries |-> <<>>]
  ELSE IF cfg.MaxDepth >= 0 /\ depth > cfg.MaxDepth
  THEN [ret |-> TRUE, count |-> 0, err |-> Nil, lists |-> FALSE, entries |-> <<>>]
  ELSE IF depth > DepthCeiling
  THEN [ret |-> TRUE, count |-> 1, err |-> Nil, lists |-> FALSE, entries |-> <<>>]
  ELSE IF ReadDir(dirPath).err # Nil
  THEN [ret |-> TRUE, count |-> 0, err |-> ReadDir(dirPath).err, lists |-> TRUE,
        entries |-> <<>>]
  ELSE [ret |-> FALSE, count |-> 1, err |-> Nil, lists |-> TRUE,
        entries |-> prepareEntries(cfg, ReadDir(dirPath).entries)]

\* enterOutcome without the select on ctx.Done() at the start of scanNode
enterOutcomeNoPoll(cfg, cerr, depth, dirPath) ==
  IF cfg.MaxDepth >= 0 /\ depth > cfg.MaxDepth
  THEN [ret |-> TRUE, count |-> 0, err |-> Nil, lists |-> FALSE, entries |-> <<>>]
  ELSE IF depth > DepthCeiling
  THEN [ret |-> TRUE, count |-> 1, err |-> Nil, lists |-> FALSE, entries |-> <<>>]
  ELSE IF ReadDir(dirPath).err # Nil
  THEN [ret |-> TRUE, count |-> 1, err |-> Nil, lists |-> TRUE, entries |-> <<>>]
  ELSE [ret |-> FALSE, count |-> 1, err |-> Nil, lists |-> TRUE,
        entries |-> prepareEntries(cfg, ReadDir(dirPath).entries)]

\* enterOutcome that counts a directory whose listing failed as 0
enterOutcomeReadZero(cfg, cerr, depth, dirPath) ==
  IF cerr # Nil
  THEN [ret |-> TRUE, count |-> 0, err |-> cerr, lists |-> FALSE, entries |-> <<>>]
  ELSE IF cfg.MaxDepth >= 0 /\ depth > cfg.MaxDepth
  THEN [ret |-> TRUE, count |-> 0, err |-> Nil, lists |-> FALSE, entries |-> <<>>]
  ELSE IF depth > DepthCeiling
  THEN [ret |-> TRUE, count |-> 1, err |-> Nil, lists |-> FALSE, entries |-> <<>>]
  ELSE IF ReadDir(dirPath).err # Nil
  THEN [ret |-> TRUE, count |-> 0, err |-> Nil, lists |-> TRUE, entries |-> <<>>]
  ELSE [ret |-> FALSE, count |-> 1, err |-> Nil, lists |-> TRUE,
        entries |-> prepareEntries(cfg, ReadDir(dirPath).entries)]

\* scanNode lines 89-130: what the invocation does before its loop.
\* ret: it returns (count, err); lists: os.ReadDir was called
enterOutcome(cfg, cerr, depth, dirPath) ==
  IF cerr # Nil
  THEN [ret |-> TRUE, count |-> 0, err |-> cerr, lists |-> FALSE, entries |-> <<>>]
  ELSE IF depthExceeded(cfg, depth)
  THEN [ret |-> TRUE, count |-> 0, err |-> Nil, lists |-> FALSE, entries |-> <<>>]
  ELSE IF ceilingExceeded(depth)
  THEN [ret |-> TRUE, count |-> 1, err |-> Nil, lists |-> FALSE, entries |-> <<>>]
  ELSE IF ReadDir(dirPath).err # Nil
  THEN [ret |-> TRUE, count |-> 1, err |-> Nil, lists |-> TRUE, entries |-> <<>>]
  ELSE [ret |-> FALSE, count |-> 1, err |-> Nil, lists |-> TRUE,
        entries |-> prepareEntries(cfg, ReadDir(dirPath).entries)]

\* the select on ctx.Done() never finds the context done
ctxDoneNever(cerr) == FALSE

\* the select on ctx.Done() at the start of scanNode and of each iteration
\* (lines 91-95 and 134-138): the context is done
ctxDone(cerr) == cerr # Nil

\* what the invocation f does with the outcome o of lines 89-130
applyEnter(f, o) ==
  /\ readDirCalls' = IF o.lists THEN Append(readDirCalls, nodes[f.node].Path)
                     ELSE readDirCalls
  /\ stack' = SetTop(IF o.ret THEN Return(f, o.count, o.err)
                     ELSE [f EXCEPT !.pc = "loop", !.entries = o.entries,
                                    !.i = 1, !.nodeCount = o.count])

\* scanNode lines 89-95: the select at the start of the invocation; a done
\* context makes it return at once, otherwise the invocation goes on to
\* lines 97-130 ("list") with whatever happens to the context meanwhile
ScanNodeEnter ==
  /\ pc = "scanning"
  /\ Top.pc = "enter"
  /\ polls' = polls + 1
  /\ IF ctxErr # Nil
     THEN applyEnter(Top, enterOutcome(config, ctxErr, Top.depth, nodes[Top.node].Path))
     ELSE /\ stack' = SetTop([Top EXCEPT !.pc = "list"])
          /\ UNCHANGED readDirCalls
  /\ UNCHANGED <<pc, config, path, ctxErr, nodes, result, err, statCalls, cancelAt, doneAt>>
  /\ UNCHANGED guiVars
  /\ UNCHANGED asyncVars

\* scanNode lines 97-130: the depth tests, os.ReadDir and the preparation of
\* the entries, after a select that found the context open
ScanNodeList ==
  /\ pc = "scanning"
  /\ Top.pc = "list"
  /\ applyEnter(Top, enterOutcome(config, Nil, Top.depth, nodes[Top.node].Path))
  /\ UNCHANGED <<pc, config, path, ctxErr, nodes, result, err, statCalls, polls,
                 cancelAt, doneAt>>
  /\ UNCHANGED guiVars
  /\ UNCHANGED asyncVars

\* scanNode lines 132-138 and 177: the select at the start of an iteration,
\* or the return after the last entry
ScanNodeLoop ==
  /\ pc = "scanning"
  /\ Top.pc = "loop"
  /\ LET f == Top IN
       IF f.i > Len(f.entries)
       THEN /\ stack' = SetTop(Return(f, f.nodeCount, Nil))
            /\ UNCHANGED polls
       ELSE /\ polls' = polls + 1
            /\ stack' = SetTop(IF ctxDone(ctxErr) THEN Return(f, f.nodeCount, ctxErr)
                               ELSE [f EXCEPT !.pc = "visit"])
  /\ UNCHANGED <<pc, config, path, ctxErr, nodes, result, err, statCalls, readDirCalls,
                 cancelAt, doneAt>>
  /\ UNCHANGED guiVars
  /\ UNCHANGED asyncVars

\* scanNode lines 140-175: the body of an iteration after a select that
\* found the context open, up to the recursive call
ScanNodeVisit ==
  /\ pc = "scanning"
  /\ Top.pc = "visit"
  /\ LET f == Top
         entry == f.entries[f.i]
         childPath == Join(nodes[f.node].Path, entry.name)
         child == Len(nodes) + 1
     IN IF isProblematicPath(childPath)
        THEN /\ stack' = SetTop([f EXCEPT !.pc = "loop", !.i = @ + 1])
             /\ UNCHANGED nodes
        ELSE /\ nodes' = Append([nodes EXCEPT ![f.node].Children = Append(@, child)],
                                [Path |-> childPath, Name |-> entry.name,
                                 IsDir |-> entry.isDir, Children |-> <<>>,
                                 Parent |-> f.node])
             /\ stack' = IF entry.isDir
                         THEN SetTop([f EXCEPT !.pc = "wait"])
                              \o <<NewFrame(child, f.depth + 1)>>
                         ELSE SetTop([f EXCEPT !.pc = "loop", !.nodeCount = @ + 1,
                                               !.i = @ + 1])
  /\ UNCHANGED <<pc, config, path, ctxErr, result, err, statCalls, readDirCalls, polls,
                 cancelAt, doneAt>>
  /\ UNCHANGED guiVars
  /\ UNCHANGED asyncVars

\* scanNode lines 163-171: the recursive call has returned
ScanNodeResume ==
  /\ pc = "scanning"
  /\ Len(stack) >= 2
  /\ Top.pc = "done"
  /\ LET callee == Top
         caller == stack[Len(stack) - 1]
     IN stack' = SubSeq(stack, 1, Len(stack) - 2) \o
                 << IF callee.retErr # Nil /\ isContextErr(callee.retErr)
                    THEN Return(caller, caller.nodeCount, callee.retErr)
                    ELSE [caller EXCEPT !.pc = "loop", !.i = @ + 1,
                                        !.nodeCount = @ + callee.retCount] >>
  /\ UNCHANGED <<pc, config, path, ctxErr, nodes, result, err, statCalls,
                 readDirCalls, polls, cancelAt, doneAt>>
  /\ UNCHANGED guiVars
  /\ UNCHANGED asyncVars

\* ScanDirectory lines 75-86: scanNode(ctx, root, 0) has returned
ScanDirectoryReturn ==
  /\ pc = "scanning"
  /\ Len(stack) = 1
  /\ Top.pc = "done"
  /\ IF Top.retErr # Nil
     THEN /\ result' = NilResult
          /\ err' = ErrorfW("failed to scan directory", Top.retErr)
     ELSE /\ result' = [isNil |-> FALSE, RootPath |-> path, TreeText |-> <<>>,
                        NodeCount |-> Top.retCount, Root |-> 1]
          /\ err' = Nil
  /\ stack' = <<>>
  /\ pc' = "returned"
  /\ UNCHANGED <<config, path, ctxErr, nodes, statCalls, readDirCalls, polls, cancelAt, doneAt>>
  /\ UNCHANGED guiVars
  /\ UNCHANGED asyncVars

(***************************************************************************)
(* internal/ui: scanDirectoryAsync, its context and its completion handler *)
(***************************************************************************)
\* scanDirectoryAsync lines 216-236: a fresh context with a deadline, the
\* status line, and the goroutine that will call ScanDirectory
scanDirectoryAsync ==
  /\ pc = "idle"
  /\ \E p \in ScanPaths : path' = p
  /\ ctxErr' = Nil
  /\ statusLabel' = [text |-> "Scanning: %s", path |-> path']
  /\ pc' = "call"
  /\ UNCHANGED <<config, cancelAt, doneAt, dialogs, currentResult, treeData>>
  /\ UNCHANGED scanVars
  /\ UNCHANGED asyncVars

\* app.cancelFunc() called while the scan runs (lines 218-220 of a later request)
CancelCtx ==
  /\ pc \in {"call", "scanning"}
  /\ ctxErr = Nil
  /\ ctxErr' = Canceled
  /\ cancelAt' = polls
  /\ doneAt' = [nodes |-> Len(nodes), lists |-> Len(readDirCalls)]
  /\ UNCHANGED <<pc, config, path>>
  /\ UNCHANGED scanVars
  /\ UNCHANGED guiVars
  /\ UNCHANGED asyncVars

\* the 30 second deadline of context.WithTimeout (line 222) expires
DeadlineCtx ==
  /\ pc \in {"call", "scanning"}
  /\ ctxErr = Nil
  /\ ctxErr' = DeadlineExceeded
  /\ cancelAt' = polls
  /\ doneAt' = [nodes |-> Len(nodes), lists |-> Len(readDirCalls)]
  /\ UNCHANGED <<pc, config, path>>
  /\ UNCHANGED scanVars
  /\ UNCHANGED guiVars
  /\ UNCHANGED asyncVars

\* the node ids reachable from n through Children, n included
RECURSIVE Subtree(_, _)
Subtree(heap, n) ==
  {n} \cup UNION {Subtree(heap, heap[n].Children[k]) : k \in 1..Len(heap[n].Children)}

\* buildTreeDataFromTreeNode without the recursive call: the root only
buildTreeDataRootOnly(heap, root) ==
  [p \in {heap[root].Path} |->
     [k \in 1..Len(heap[root].Children) |-> heap[heap[root].Children[k]].Path]]

\* buildTreeDataFromTreeNode(root): node path -> paths of its children
buildTreeDataFromTreeNode(heap, root) ==
  [p \in {heap[n].Path : n \in Subtree(heap, root)} |->
     LET n == CHOOSE m \in Subtree(heap, root) : heap[m].Path = p
     IN [k \in 1..Len(heap[n].Children) |-> heap[heap[n].Children[k]].Path]]

\* the completion handler, lines 261-274: what it does with a non-nil err
completionOnError(e) ==
  IF e = Canceled
  THEN [status |-> "Scan cancelled", dialog |-> <<>>]
  ELSE IF e = DeadlineExceeded
  THEN [status |-> "Scan timed out (directory too large)", dialog |-> <<>>]
  ELSE [status |-> "Scan failed", dialog |-> <<[title |-> "Scan Error", err |-> e]>>]

\* the goroutine after ScanDirectory returned, lines 255-280, and its
\* deferred cancel(), line 250
ScanCompletion ==
  /\ pc = "returned"
  /\ LET rendered == IF ~result.isNil /\ result.Root # 0
                     THEN [result EXCEPT !.TreeText = RenderTree(nodes, result.Root)]
                     ELSE result
     IN /\ result' = rendered
        /\ IF err # Nil
           THEN /\ statusLabel' = [text |-> completionOnError(err).status]
                /\ dialogs' = dialogs \o completionOnError(err).dialog
                /\ UNCHANGED <<currentResult, treeData>>
           ELSE /\ currentResult' = rendered
                /\ treeData' = IF rendered.Root # 0
                               THEN buildTreeDataFromTreeNode(nodes, rendered.Root)
                               ELSE [p \in {} |-> <<>>]
                /\ statusLabel' = [text |-> "Scanned %d items from: %s",
                                   count |-> rendered.NodeCount, path |-> path]
                /\ dialogs' = Append(dialogs, [title |-> "Success"])
  /\ ctxErr' = IF ctxErr = Nil THEN Canceled ELSE ctxErr
  /\ pc' = "handled"
  /\ UNCHANGED <<config, path, nodes, stack, err, statCalls, readDirCalls, polls, cancelAt, doneAt>>
  /\ UNCHANGED asyncVars

Next ==
  \/ scanDirectoryAsync
  \/ CancelCtx
  \/ DeadlineCtx
  \/ ScanDirectoryCall
  \/ ScanNodeEnter
  \/ ScanNodeList
  \/ ScanNodeLoop
  \/ ScanNodeVisit
  \/ ScanNodeResume
  \/ ScanDirectoryReturn
  \/ ScanCompletion

Spec == Init /\ [][Next]_vars

(***************************************************************************)
(* ScanDirectory called directly, with a context that is never cancelled   *)
(* (context.Background()), on the directories with very long listings      *)
(***************************************************************************)
\* a caller hands ScanDirectory one of the paths P
ScanDirectoryOn(P) ==
  /\ pc = "idle"
  /\ \E p \in P : path' = p
  /\ pc' = "call"
  /\ UNCHANGED <<config, ctxErr, cancelAt, doneAt>>
  /\ UNCHANGED scanVars
  /\ UNCHANGED guiVars
  /\ UNCHANGED asyncVars

LargeConfigs == [MaxDepth : {DefaultMaxDepth}, ShowHidden : BOOLEAN, SortDirs : BOOLEAN]

\* "full" is scanned with the hidden entries filtered out
LargePaths(cfg) == IF cfg.ShowHidden THEN {sHuge} ELSE LargeRoots

InitLarge == InitWith(LargeConfigs)

NextLarge ==
  \/ ScanDirectoryOn(LargePaths(config))
  \/ ScanDirectoryCall
  \/ ScanNodeEnter
  \/ ScanNodeList
  \/ ScanNodeLoop
  \/ ScanNodeVisit
  \/ ScanNodeResume
  \/ ScanDirectoryReturn

SpecLarge == InitLarge /\ [][NextLarge]_vars

(***************************************************************************)
(* ScanDirectory called directly, with a context that is never cancelled,  *)
(* on every path, the endless directory included.  The call runs in one    *)
(* goroutine, which the Go scheduler keeps running: a step of the scanner  *)
(* that stays possible is eventually taken.                                *)
(***************************************************************************)
LivePaths == ScanPaths \cup {sEndless}

ScanStep ==
  \/ ScanDirectoryCall
  \/ ScanNodeEnter
  \/ ScanNodeList
  \/ ScanNodeLoop
  \/ ScanNodeVisit
  \/ ScanNodeResume
  \/ ScanDirectoryReturn

NextLive ==
  \/ ScanDirectoryOn(LivePaths)
  \/ ScanStep

SpecLive == Init /\ [][NextLive]_vars /\ WF_vars(ScanStep)

(***************************************************************************)
(* Vocabulary of the properties                                            *)
(***************************************************************************)
Returned == pc \in {"returned", "handled"}
Succeeded == Returned /\ err = Nil
NodeIds == 1..Len(nodes)
IsDirectoryPath(p) == p \in FsPaths /\ FsEntry(p).isDir
CtxError(e) == ErrorsIs(e, Canceled) \/ ErrorsIs(e, DeadlineExceeded)

RECURSIVE NodeDepth(_)
NodeDepth(n) == IF nodes[n].Parent = 0 THEN 0 ELSE 1 + NodeDepth(nodes[n].Parent)

\* a path holds one of the six reserved substrings
Reserved(p) == \E k \in 1..Len(problematicPaths) : Contains(p, problematicPaths[k])

Listed(p) == \E k \in 1..Len(readDirCalls) : readDirCalls[k] = p

ChildPaths(n) == [k \in 1..Len(nodes[n].Children) |-> nodes[nodes[n].Children[k]].Path]

\* the child paths a listed directory must end up with: its listing after
\* the hidden filter and the sort, without the entries of reserved path
ExpectedChildPaths(p) ==
  LET es == prepareEntries(config, ReadDir(p).entries)
      kept == SelectSeq(es, LAMBDA e : ~Reserved(Join(p, e.name)))
  IN [k \in 1..Len(kept) |-> Join(p, kept[k].name)]

\* the nodes of the tree without the directories cut off by MaxDepth
CountedNodes ==
  {n \in NodeIds : ~(nodes[n].IsDir /\ config.MaxDepth >= 0 /\ NodeDepth(n) > config.MaxDepth)}

(***************************************************************************)
(* C1                                                                      *)
(***************************************************************************)
\* C1: when ScanDirectory succeeds, NodeCount equals the number of TreeNode
\* values reachable from Root through Children, the root included; a
\* directory beyond maxDepth is counted exactly once.
C1_NodeCountIsTreeSize ==
  Succeeded => result.NodeCount = Cardinality(Subtree(nodes, result.Root))

(***************************************************************************)
(* C2                                                                      *)
(***************************************************************************)
\* C2 as stated: if the context is cancelled at any moment after the scan of
\* a valid directory has started (after its first poll) and before
\* ScanDirectory has returned, ScanDirectory returns the cancellation
\* condition as its error and never a successful result.
C2_CancelAlwaysReported ==
  (pc = "returned" /\ IsDirectoryPath(path) /\ ctxErr # Nil /\ cancelAt >= 1)
    => (result.isNil /\ ErrorsIs(err, ctxErr))

\* C2 amended: a cancellation of the context of a scan of a valid directory
\* is reported (nil result, error wrapping ctx.Err()) exactly when a poll of
\* the context follows it; a cancellation after the last poll of the scan
\* goes unnoticed and ScanDirectory returns its successful result.
C2_CancelSeenByLaterPoll ==
  (pc = "returned" /\ IsDirectoryPath(path) /\ ctxErr # Nil)
    => IF cancelAt < polls
       THEN result.isNil /\ ErrorsIs(err, ctxErr)
       ELSE err = Nil /\ ~result.isNil

C2_Witness ==
  /\ pc = "returned"
  /\ IsDirectoryPath(path)
  /\ ctxErr = Canceled
  /\ cancelAt >= 2
  /\ cancelAt < polls
  /\ result.isNil
  /\ ErrorsIs(err, Canceled)

(***************************************************************************)
(* C3                                                                      *)
(***************************************************************************)
\* a scanNode invocation is about to poll a context that is done
PollsDoneCtx ==
  /\ pc = "scanning"
  /\ ctxErr # Nil
  /\ \/ Top.pc = "enter"
     \/ Top.pc = "loop" /\ Top.i <= Len(Top.entries)

\* the innermost scanNode invocation has returned an error
ReturnsErr == pc = "scanning" /\ Top.pc = "done" /\ Top.retErr # Nil

\* C3: a scanNode invocation that observes the context as done returns
\* ctx.Err(); every enclosing invocation then returns the same error without
\* creating a node (or listing a directory) for a remaining entry, and
\* ScanDirectory returns a nil result with an error wrapping that condition.
C3_CancelPropagates ==
  /\ [](ReturnsErr => Top.retErr = ctxErr)
  /\ [][ /\ PollsDoneCtx =>
              /\ Len(stack') = Len(stack)
              /\ Top'.pc = "done"
              /\ Top'.retErr = ctxErr
              /\ nodes' = nodes
              /\ readDirCalls' = readDirCalls
         /\ ReturnsErr =>
              /\ nodes' = nodes
              /\ readDirCalls' = readDirCalls
              /\ IF Len(stack) >= 2
                 THEN /\ Len(stack') = Len(stack) - 1
                      /\ Top'.pc = "done"
                      /\ Top'.retErr = Top.retErr
                 ELSE /\ pc' = "returned"
                      /\ result' = NilResult
                      /\ err' = ErrorfW("failed to scan directory", Top.retErr)
                      /\ err' # Top.retErr
       ]_vars

C3_Witness ==
  /\ pc = "returned"
  /\ path = <<"r">>
  /\ result.isNil
  /\ err = ErrorfW("failed to scan directory", DeadlineExceeded)
  /\ Len(readDirCalls) >= 3
  /\ Len(nodes) >= 4

(***************************************************************************)
(* C4                                                                      *)
(***************************************************************************)
\* C4: when a scan started by scanDirectoryAsync ends because its context
\* was cancelled or its deadline expired, the completion handler sets the
\* status 'Scan cancelled' or 'Scan timed out (directory too large)' and
\* shows no 'Scan Error' dialog and no status 'Scan failed'.
C4_DistinctCancelStatus ==
  (pc = "handled" /\ CtxError(err))
    => /\ statusLabel.text = IF ErrorsIs(err, Canceled) THEN "Scan cancelled"
                             ELSE "Scan timed out (directory too large)"
       /\ dialogs = <<>>

(***************************************************************************)
(* C5                                                                      *)
(***************************************************************************)
\* C5: for the empty path, a path that does not exist and a path that is
\* not a directory, ScanDirectory returns an error and a nil result,
\* creates no TreeNode and lists no directory; for the empty path os.Stat
\* is not called either.
C5_RootErrorsAreFatal ==
  (Returned /\ ~IsDirectoryPath(path))
    => /\ err # Nil
       /\ ~CtxError(err)
       /\ result.isNil
       /\ nodes = <<>>
       /\ readDirCalls = <<>>
       /\ statCalls = IF path = <<>> THEN <<>> ELSE <<path>>
       /\ err.msg = IF path = <<>> THEN "path cannot be empty"
                    ELSE IF path \notin FsPaths THEN "failed to stat path"
                    ELSE "path is not a directory"

C5_Witness ==
  /\ pc = "returned"
  /\ path = <<"f">>
  /\ err = Errorf("path is not a directory")
  /\ result.isNil
  /\ statCalls = <<path>>

(***************************************************************************)
(* C6                                                                      *)
(***************************************************************************)
\* a non-root directory node whose listing was asked for and failed
ReadFailed(n) ==
  /\ nodes[n].Parent # 0
  /\ Listed(nodes[n].Path)
  /\ ReadDir(nodes[n].Path).err # Nil

\* a non-root directory node whose listing was asked for and is empty
ReadEmpty(n) ==
  /\ nodes[n].Parent # 0
  /\ Listed(nodes[n].Path)
  /\ ReadDir(nodes[n].Path).err = Nil
  /\ ReadDir(nodes[n].Path).entries = <<>>

\* C6: a failed listing of a non-root directory does not fail the scan: the
\* invocation returns (1, nil) with no children, as for an empty readable
\* directory; the scan can only fail by cancellation; and in a successful
\* scan the node is a child of its parent, every listed directory has all
\* its expected children, and each node other than a depth-cut directory
\* counts once.
C6_ReadFailureIsLeaf ==
  /\ \A k \in 1..Len(stack) :
       (stack[k].pc = "done" /\ stack[k].retErr = Nil
        /\ (ReadFailed(stack[k].node) \/ ReadEmpty(stack[k].node)))
         => (stack[k].retCount = 1 /\ nodes[stack[k].node].Children = <<>>)
  /\ \A k \in 1..Len(stack) : stack[k].retErr # Nil => stack[k].retErr = ctxErr
  /\ (Returned /\ IsDirectoryPath(path) /\ err # Nil) => CtxError(err)
  /\ Succeeded =>
       /\ \A n \in NodeIds :
            /\ ReadFailed(n) =>
                 /\ nodes[n].Children = <<>>
                 /\ \E k \in 1..Len(nodes[nodes[n].Parent].Children) :
                      nodes[nodes[n].Parent].Children[k] = n
            /\ Listed(nodes[n].Path) => ChildPaths(n) = ExpectedChildPaths(nodes[n].Path)
       /\ result.NodeCount = Cardinality(CountedNodes)

C6_Witness ==
  /\ Succeeded
  /\ path = <<"r">>
  /\ config.MaxDepth = -1
  /\ \E n \in NodeIds : nodes[n].Path = <<"r", "/", "c">> /\ ReadFailed(n)
  /\ \E n \in NodeIds : nodes[n].Path = <<"r", "/", "d", "/", "e", "/", "f", "/", "g">>
  /\ \E n \in NodeIds : nodes[n].Path = <<"r", "/", "a">>

(***************************************************************************)
(* C7                                                                      *)
(***************************************************************************)
Min(a, b) == IF a < b THEN a ELSE b

ReadableDirNode(n) == nodes[n].IsDir /\ FsEntry(nodes[n].Path).readable

\* C7 as stated: for maxDepth = d >= 0, in the tree of a successful scan
\* every node at depth greater than d has empty Children, no node is deeper
\* than d+1, and every readable directory at depth d or less has had its
\* entries listed.
C7_DepthLimitAsStated ==
  (Succeeded /\ config.MaxDepth >= 0) =>
    \A n \in NodeIds :
      /\ NodeDepth(n) > config.MaxDepth => nodes[n].Children = <<>>
      /\ NodeDepth(n) <= config.MaxDepth + 1
      /\ (ReadableDirNode(n) /\ NodeDepth(n) <= config.MaxDepth) => Listed(nodes[n].Path)

\* C7 amended: as stated, but the directories that have had their entries
\* listed are the readable ones at depth min(d, 50) or less; a directory at
\* depth 51 is not listed whatever d is.
C7_DepthLimitUpToCeiling ==
  (Succeeded /\ config.MaxDepth >= 0) =>
    \A n \in NodeIds :
      /\ NodeDepth(n) > config.MaxDepth => nodes[n].Children = <<>>
      /\ NodeDepth(n) <= config.MaxDepth + 1
      /\ (ReadableDirNode(n) /\ NodeDepth(n) <= Min(config.MaxDepth, DepthCeiling))
           => Listed(nodes[n].Path)
      /\ NodeDepth(n) > DepthCeiling => ~Listed(nodes[n].Path) /\ nodes[n].Children = <<>>

C7_Witness ==
  /\ Succeeded
  /\ config.MaxDepth = 1
  /\ path = <<"r">>
  /\ \E n \in NodeIds : /\ nodes[n].Path = <<"r", "/", "d", "/", "e">>
                        /\ NodeDepth(n) = 2
                        /\ nodes[n].Children = <<>>
                        /\ ~Listed(nodes[n].Path)
  /\ Listed(<<"r", "/", "d">>)

(***************************************************************************)
(* C8                                                                      *)
(***************************************************************************)
\* C8: with ShowHidden false no node other than the root has a Name that
\* begins with '.', at any depth and at any moment of the scan; when
\* ScanDirectory returns (with a tree or cancelled) no directory below a
\* hidden entry has been listed, and no hidden entry is counted.
C8_NoHiddenNodes ==
  ~config.ShowHidden =>
    /\ \A n \in NodeIds :
         nodes[n].Parent # 0 => (nodes[n].Name # <<>> /\ Head(nodes[n].Name) # ".")
    /\ pc = "returned" =>
         \A k \in 1..Len(readDirCalls) : ~Contains(readDirCalls[k], <<"/", ".">>)
    /\ Succeeded => result.NodeCount <= Cardinality(Subtree(nodes, result.Root))

C8_Witness ==
  /\ Succeeded
  /\ ~config.ShowHidden
  /\ config.MaxDepth = -1
  /\ path = <<"r">>
  /\ Len(nodes) = 11

(***************************************************************************)
(* C9                                                                      *)
(***************************************************************************)
\* C9: with SortDirs true, in the Children of every node all directories
\* precede all files, and within the directories and within the files the
\* names are in non-decreasing byte-wise order, also when entries were
\* skipped by the path exclusion.
C9_ChildrenSorted ==
  config.SortDirs =>
    \A n \in NodeIds :
      \A i, j \in 1..Len(nodes[n].Children) :
        i < j =>
          LET a == nodes[nodes[n].Children[i]]
              b == nodes[nodes[n].Children[j]]
          IN /\ a.IsDir \/ ~b.IsDir
             /\ a.IsDir = b.IsDir => ~StrLess(b.Name, a.Name)

C9_Witness ==
  /\ Succeeded
  /\ config.SortDirs
  /\ config.ShowHidden
  /\ config.MaxDepth = -1
  /\ path = <<"r">>
  /\ ChildPaths(1) = << <<"r", "/", ".", "h">>, <<"r", "/", "b">>, <<"r", "/", "c">>,
                        <<"r", "/", "d">>, <<"r", "/", ".", "e">>, <<"r", "/", "a">> >>

(***************************************************************************)
(* C10                                                                     *)
(***************************************************************************)
\* C10: when ScanDirectory returns (with a tree or cancelled), no node other
\* than the root has a Path holding one of the six reserved substrings and
\* no such path below the root has been listed; in the returned tree the
\* other entries of the same directory are all there, in order, and the
\* skipped entry is not counted.
C10_ReservedPathsSkipped ==
  /\ pc = "returned" =>
       /\ \A n \in NodeIds : nodes[n].Parent # 0 => ~Reserved(nodes[n].Path)
       /\ \A k \in 2..Len(readDirCalls) : ~Reserved(readDirCalls[k])
  /\ Succeeded =>
       /\ \A n \in NodeIds :
            Listed(nodes[n].Path) => ChildPaths(n) = ExpectedChildPaths(nodes[n].Path)
       /\ result.NodeCount = Cardinality(CountedNodes)
       /\ result.NodeCount <= Len(nodes)

C10_Witness ==
  /\ Succeeded
  /\ path = <<"r">>
  /\ config.MaxDepth = -1
  /\ ~config.SortDirs
  /\ \E n \in NodeIds : nodes[n].Path = <<"r", "/", "b", "/", "y">>
  /\ \E n \in NodeIds : nodes[n].Path = <<"r", "/", "a">>
  /\ \A n \in NodeIds : nodes[n].Name # sRecovery

(***************************************************************************)
(* C11                                                                     *)
(***************************************************************************)
\* the entries scanNode has to go through for a listing L that is sorted by
\* name: those of the first EntryKeep if L is longer than EntryLimit, of all
\* of L otherwise; without the hidden ones unless they are shown; the
\* directories first if asked for
EntriesToProcess(cfg, L) ==
  LET kept == IF Len(L) > EntryLimit THEN SubSeq(L, 1, EntryKeep) ELSE L
      shown == IF cfg.ShowHidden THEN kept
               ELSE SelectSeq(kept, LAMBDA e : Head(e.name) # ".")
  IN IF cfg.SortDirs
     THEN SelectSeq(shown, LAMBDA e : e.isDir) \o SelectSeq(shown, LAMBDA e : ~e.isDir)
     ELSE shown

\* C11: a directory whose listing has more than 10 000 entries is processed
\* as a directory holding only the first 1 000 entries of the listing, the
\* cut coming before the hidden filter and before the sort; a directory of
\* 10 000 entries or fewer is processed with all its entries: the root's
\* invocation iterates over exactly these entries, and the returned tree has
\* one child per such entry, in order, each counted once.
C11_LongListingCut ==
  LET todo == EntriesToProcess(config, LargeListing(path)) IN
  /\ (pc = "scanning" /\ stack[1].pc = "loop" /\ stack[1].i = 1)
       => stack[1].entries = todo
  /\ (pc = "returned" /\ path \in LargeRoots)
       => /\ err = Nil
          /\ Len(nodes[1].Children) = Len(todo)
          /\ \A k \in 1..Len(todo) :
               /\ nodes[1].Children[k] = k + 1
               /\ nodes[k + 1].Name = todo[k].name
               /\ nodes[k + 1].IsDir = todo[k].isDir
               /\ nodes[k + 1].Parent = 1
          /\ Len(nodes) = 1 + Len(todo)
          /\ result.NodeCount = 1 + Len(todo)

\* the root of the directory of more than 10 000 entries has been listed, its
\* listing cut and filtered, and the first kept entries have become children
C11_Witness ==
  /\ pc = "scanning"
  /\ path = sHuge
  /\ ~config.ShowHidden
  /\ config.SortDirs
  /\ Len(stack) = 1
  /\ stack[1].pc = "loop"
  /\ stack[1].i = 3
  /\ Len(LargeListing(path)) > EntryLimit
  /\ Len(stack[1].entries) = EntryKeep - LargeHidden
  /\ Len(nodes[1].Children) = 2
  /\ nodes[nodes[1].Children[1]].IsDir
  /\ nodes[nodes[1].Children[1]].Name = Numeral(LargeDirEvery)

(***************************************************************************)
(* C12                                                                     *)
(***************************************************************************)
sRoot == <<"r", "o", "o", "t">>
sATxt == <<"a", ".", "t", "x", "t">>
sZTxt == <<"z", ".", "t", "x", "t">>
sALog == <<"a", ".", "l", "o", "g">>

\* the text expected for the fixture: header, separator, blank line, 'b/'
\* flush-left, its two files behind their connectors, 'a.log' behind the
\* connector of a last child
ExampleText ==
  <<"F", "i", "l", "e", " ", "T", "r", "e", "e", " ", "f", "o", "r", ":", " ">>
    \o sRoot \o <<"\n">>
  \o SubSeq([k \in 1..SeparatorWidth |-> "="], 1, SeparatorWidth) \o <<"\n">>
  \o <<"\n">>
  \o <<"U+1F4C1", " ", "b", "/", "\n">>
  \o <<"U+251C", "U+2500", "U+2500", " ", "U+1F4C4", " ">> \o sATxt \o <<"\n">>
  \o <<"U+2514", "U+2500", "U+2500", " ", "U+1F4C4", " ">> \o sZTxt \o <<"\n">>
  \o <<"U+2514", "U+2500", "U+2500", " ", "U+1F4C4", " ">> \o sALog \o <<"\n">>

BeyondCeiling == {k \in 1..Len(stack) : stack[k].depth > DepthCeiling}

\* never listed and without children: the part of C13 about the tree
C13_CeilingNodeNotListed ==
  /\ \A k \in BeyondCeiling :
       /\ ~Listed(nodes[stack[k].node].Path)
       /\ nodes[stack[k].node].Children = <<>>
  /\ Succeeded =>
       \A n \in NodeIds :
         (n > DepthCeiling + 1 /\ NodeDepth(n) > DepthCeiling)
           => (~Listed(nodes[n].Path) /\ nodes[n].Children = <<>>)

\* C13: whatever maxDepth is configured (negative, or any non-negative
\* value, 50 and above included), a directory node at depth greater than 50
\* is never listed, gets no children, and contributes exactly 1 to
\* NodeCount as a leaf.
C13_CeilingNodeCountsOnce ==
  /\ C13_CeilingNodeNotListed
  /\ \A k \in BeyondCeiling :
       (stack[k].pc = "done" /\ stack[k].retErr = Nil) => stack[k].retCount = 1

(***************************************************************************)
(* C14                                                                     *)
(***************************************************************************)
\* C14: for every configuration (unlimited maxDepth included) and every
\* directory structure (one whose nesting never ends included), a call of
\* ScanDirectory whose context is never cancelled eventually returns; no
\* scanNode invocation runs at a depth greater than 51, and each invocation
\* iterates over a finite list of at most EntryLimit entries.
C14_ScanTerminates ==
  /\ (pc = "call") ~> (pc = "returned")
  /\ [](\A k \in 1..Len(stack) :
          /\ stack[k].depth <= DepthCeiling + 1
          /\ stack[k].depth = k - 1
          /\ Len(stack[k].entries) <= EntryLimit
          /\ stack[k].i <= Len(stack[k].entries) + 1)

C14_Witness ==
  /\ pc = "returned"
  /\ path = sEndless
  /\ config.MaxDepth = -1
  /\ err = Nil
  /\ Len(nodes) = DepthCeiling + 2
  /\ ~result.isNil
  /\ result.NodeCount = DepthCeiling + 2

(***************************************************************************)
(* Vocabulary of the properties of the rendered text                       *)
(***************************************************************************)
\* the lines of a text, each without the "\n" that ends it
Lines(text) ==
  LET NL == {i \in 1..Len(text) : text[i] = "\n"}
      n == Cardinality(NL)
      end == SubSeq([k \in 1..n |-> CHOOSE e \in NL : Cardinality({q \in NL : q <= e}) = k],
                    1, n)
  IN SubSeq([k \in 1..n |-> SubSeq(text, IF k = 1 THEN 1 ELSE end[k - 1] + 1, end[k] - 1)],
            1, n)

\* the nodes below and including n in depth-first pre-order along Children
RECURSIVE PreOrder(_, _)
RECURSIVE PreOrderFrom(_, _, _)
PreOrder(heap, n) == <<n>> \o PreOrderFrom(heap, n, 1)
PreOrderFrom(heap, n, i) ==
  IF i > Len(heap[n].Children) THEN <<>>
  ELSE PreOrder(heap, heap[n].Children[i]) \o PreOrderFrom(heap, n, i + 1)

\* a scan has succeeded and its text is displayed
Displayed == pc = "handled" /\ err = Nil

\* the line of the k-th node in pre-order (k >= 2: the root has none)
LineOf(k) == Lines(result.TreeText)[k + 2]

\* icon, blank, name, and '/' for a directory
Label(n) ==
  (IF nodes[n].IsDir THEN <<"U+1F4C1">> ELSE <<"U+1F4C4">>) \o <<" ">> \o nodes[n].Name
  \o (IF nodes[n].IsDir THEN <<"/">> ELSE <<>>)

IsFirstOfRoot(n) == nodes[n].Parent = 1 /\ nodes[1].Children[1] = n
IsLastSibling(n) ==
  LET p == nodes[n].Parent IN nodes[p].Children[Len(nodes[p].Children)] = n

\* what stands before the label of node n on a line
BeforeLabel(line, n) == SubSeq(line, 1, Len(line) - Len(Label(n)))

(***************************************************************************)
(* C15                                                                     *)
(***************************************************************************)
ConnectorOf(n) ==
  IF IsFirstOfRoot(n) THEN <<>>
  ELSE IF IsLastSibling(n) THEN <<"U+2514", "U+2500", "U+2500", " ">>
  ELSE <<"U+251C", "U+2500", "U+2500", " ">>

\* C15: in the text of RenderTree the label of each non-root node is
\* preceded by '└── ' if the node is the last of its siblings and by '├── '
\* otherwise, and before the connector stand only prefix characters; the
\* first child of the root is the exception: its line is its label alone,
\* also when it is the only child of the root.
C15_Connectors ==
  Displayed =>
    LET order == PreOrder(nodes, 1)
        lines == Lines(result.TreeText)
    IN /\ Len(lines) = Len(order) + 2
       /\ \A k \in 2..Len(order) :
            LET b == BeforeLabel(lines[k + 2], order[k])
                c == ConnectorOf(order[k])
            IN /\ Len(lines[k + 2]) >= Len(Label(order[k])) + Len(c)
               /\ SubSeq(b, Len(b) - Len(c) + 1, Len(b)) = c
               /\ \A i \in 1..(Len(b) - Len(c)) : b[i] \in {" ", "U+2502"}
               /\ IsFirstOfRoot(order[k]) => b = <<>>

C15_Witness ==
  /\ Displayed
  /\ path = <<"r">>
  /\ config.MaxDepth = -1
  /\ config.ShowHidden
  /\ \E n \in NodeIds : nodes[n].Parent = 1 /\ ~IsFirstOfRoot(n) /\ ~IsLastSibling(n)
  /\ \E n \in NodeIds : nodes[n].Parent > 1 /\ IsLastSibling(n) /\ nodes[n].Children # <<>>
  /\ Len(Lines(result.TreeText)) = Len(nodes) + 2

(***************************************************************************)
(* C16                                                                     *)
(***************************************************************************)
\* what the lines below node p add to the prefix of p
Continuation(p) ==
  IF IsLastSibling(p) THEN <<" ", " ", " ", " ">> ELSE <<"U+2502", " ", " ", " ">>

\* the prefix of the line of n by the rule as stated
RECURSIVE StatedPrefix(_)
StatedPrefix(n) ==
  IF nodes[n].Parent \in {0, 1} THEN <<>>
  ELSE StatedPrefix(nodes[n].Parent) \o Continuation(nodes[n].Parent)

\* the prefix of the line of n when the lines below the root's first child
\* start again from the empty prefix
RECURSIVE RestartedPrefix(_)
RestartedPrefix(n) ==
  IF nodes[n].Parent \in {0, 1} \/ IsFirstOfRoot(nodes[n].Parent) THEN <<>>
  ELSE RestartedPrefix(nodes[n].Parent) \o Continuation(nodes[n].Parent)

\* n lies in the subtree of the root's first child
RECURSIVE UnderFirstOfRoot(_)
UnderFirstOfRoot(n) ==
  /\ nodes[n].Parent # 0
  /\ IsFirstOfRoot(n) \/ UnderFirstOfRoot(nodes[n].Parent)

\* the prefix on the line of the k-th node in pre-order: what stands before
\* its connector
PrefixOnLine(order, lines, k) ==
  LET b == BeforeLabel(lines[k + 2], order[k])
  IN SubSeq(b, 1, Len(b) - Len(ConnectorOf(order[k])))

\* C16 as stated: the lines of the descendants of a non-last child carry the
\* parent's prefix extended by '│   ', those of a last child the parent's
\* prefix extended by four blanks; so a node at depth k >= 1 is indented by
\* exactly 4*(k-1) prefix characters, also below each child of the root.
C16_PrefixAsStated ==
  Displayed =>
    LET order == PreOrder(nodes, 1)
        lines == Lines(result.TreeText)
    IN \A k \in 2..Len(order) :
         /\ PrefixOnLine(order, lines, k) = StatedPrefix(order[k])
         /\ Len(PrefixOnLine(order, lines, k)) = 4 * (NodeDepth(order[k]) - 1)

\* C16 amended: as stated, except below the first child of the root, whose
\* children start again from the empty prefix: a node at depth k is indented
\* by 4*(k-1) prefix characters outside the subtree of the root's first
\* child, and inside it by 4*(k-2) (none for the first child itself).
C16_PrefixRestartsUnderFirstChild ==
  Displayed =>
    LET order == PreOrder(nodes, 1)
        lines == Lines(result.TreeText)
    IN \A k \in 2..Len(order) :
         /\ PrefixOnLine(order, lines, k) = RestartedPrefix(order[k])
         /\ Len(PrefixOnLine(order, lines, k)) =
              IF ~UnderFirstOfRoot(order[k]) THEN 4 * (NodeDepth(order[k]) - 1)
              ELSE IF IsFirstOfRoot(order[k]) THEN 0
              ELSE 4 * (NodeDepth(order[k]) - 2)

C16_Witness ==
  /\ Displayed
  /\ path = <<"r">>
  /\ config.MaxDepth = -1
  /\ LET order == PreOrder(nodes, 1)
         lines == Lines(result.TreeText)
     IN /\ \E k \in 2..Len(order) :
             /\ nodes[order[k]].Name = <<"g">>
             /\ NodeDepth(order[k]) = 4
             /\ ~UnderFirstOfRoot(order[k])
             /\ Len(PrefixOnLine(order, lines, k)) = 12
        /\ \E k \in 2..Len(order) :
             /\ NodeDepth(order[k]) = 2
             /\ UnderFirstOfRoot(order[k])
             /\ PrefixOnLine(order, lines, k) = <<>>

(***************************************************************************)
(* C17                                                                     *)
(***************************************************************************)
\* line ends with the label of node n
EndsWithLabel(line, n) ==
  /\ Len(line) >= Len(Label(n))
  /\ SubSeq(line, Len(line) - Len(Label(n)) + 1, Len(line)) = Label(n)

\* C17: the text RenderTree gives for a tree is the header line 'File Tree
\* for: {root.Path}', a line of 50 '=', an empty line, and then exactly one
\* line per non-root node, in depth-first pre-order along Children, each
\* ending with the label of its node; there is no line for the root, and
\* for a root without children the text is header, separator and empty line
\* only.
C17_OneLinePerNode ==
  Displayed =>
    LET order == PreOrder(nodes, 1)
        text == result.TreeText
        lines == Lines(text)
    IN /\ Len(order) = Len(nodes)
       /\ text # <<>> /\ text[Len(text)] = "\n"
       /\ Len(lines) = 3 + (Len(nodes) - 1)
       /\ lines[1] = <<"F", "i", "l", "e", " ", "T", "r", "e", "e", " ",
                       "f", "o", "r", ":", " ">> \o nodes[1].Path
       /\ Len(lines[2]) = 50
       /\ \A i \in 1..Len(lines[2]) : lines[2][i] = "="
       /\ lines[3] = <<>>
       /\ \A k \in 2..Len(order) : EndsWithLabel(lines[k + 2], order[k])
       /\ nodes[1].Children = <<>> => Len(lines) = 3

C17_Witness ==
  /\ Displayed
  /\ path = <<"r">>
  /\ ~config.ShowHidden
  /\ config.MaxDepth = -1
  /\ Len(nodes) = 11
  /\ Len(Lines(result.TreeText)) = 13
  /\ EndsWithLabel(Lines(result.TreeText)[13], 11)

(***************************************************************************)
(* C18                                                                     *)
(***************************************************************************)
\* the innermost invocation moves on from the start of scanNode, or from
\* the start of an iteration of its loop
LeavesStart == pc = "scanning" /\ Top.pc = "enter" /\ stack' # stack
LeavesIterationStart ==
  pc = "scanning" /\ Top.pc = "loop" /\ Top.i <= Len(Top.entries) /\ stack' # stack

\* C18: the scanner polls the context at the start of every scanNode
\* invocation and at the start of every iteration over the entries, before
\* it lists a directory or creates a node; so once the context is done, at
\* most one further TreeNode is created and at most one further directory
\* is listed before the scan returns.
C18_PollBoundsWorkAfterDone ==
  /\ [](cancelAt >= 0 =>
          /\ Len(nodes) <= doneAt.nodes + 1
          /\ Len(readDirCalls) <= doneAt.lists + 1)
  /\ [][ /\ LeavesStart => polls' = polls + 1 /\ readDirCalls' = readDirCalls
         /\ LeavesIterationStart => polls' = polls + 1 /\ nodes' = nodes
         /\ (pc = "scanning" /\ readDirCalls' # readDirCalls)
              => (Top.pc = "list" /\ polls' = polls)
         /\ (pc = "scanning" /\ nodes' # nodes)
              => (Top.pc = "visit" /\ polls' = polls)
       ]_vars

C18_Witness ==
  /\ pc = "returned"
  /\ cancelAt >= 2
  /\ result.isNil
  /\ CtxError(err)
  /\ Len(nodes) = doneAt.nodes + 1
  /\ Len(readDirCalls) = doneAt.lists
  /\ doneAt.nodes >= 3

(***************************************************************************)
(* C20                                                                     *)
(***************************************************************************)
\* the context was done before ScanDirectory did anything
AlreadyCancelled == cancelAt = 0 /\ doneAt.nodes = 0

\* C20: ScanDirectory checks its arguments before it looks at the context:
\* called with a context that is already cancelled and an empty,
\* non-existent or non-directory path it returns the root-level error of
\* that path and no cancellation error; called with such a context and a
\* valid directory it returns a nil result and the cancellation error,
\* after its first poll and without listing any directory.
C20_ArgumentsBeforeContext ==
  (pc = "returned" /\ AlreadyCancelled) =>
    /\ result.isNil
    /\ err # Nil
    /\ readDirCalls = <<>>
    /\ IF IsDirectoryPath(path)
       THEN /\ err = ErrorfW("failed to scan directory", ctxErr)
            /\ CtxError(err)
            /\ statCalls = <<path>>
            /\ polls = 1
       ELSE /\ ~CtxError(err)
            /\ err.msg = IF path = <<>> THEN "path cannot be empty"
                         ELSE IF path \notin FsPaths THEN "failed to stat path"
                         ELSE "path is not a directory"
            /\ polls = 0
            /\ nodes = <<>>

C20_Witness ==
  /\ pc = "returned"
  /\ AlreadyCancelled
  /\ ctxErr = Canceled
  /\ path = <<"m">>
  /\ err = ErrorfW("failed to stat path", ErrNotExist)
  /\ result.isNil

(***************************************************************************)
(* internal/ui: several scans requested one after another.  Each request   *)
(* starts a goroutine of its own; the calls of ScanDirectory share no      *)
(* state, so the steps of one call are taken before another call starts,   *)
(* and the goroutines interleave around the call and at fyne.Do.           *)
(***************************************************************************)
MaxScans == 2

\* the folders picked in the GUI: the example tree, an empty directory and
\* a path that is not a directory
GuiPaths == {sRoot, <<"e">>, <<"f">>}

\* cancel() applied to a context whose error is c
cancelled(c) == IF c = Nil THEN Canceled ELSE c

\* a request as scanDirectoryAsync leaves it at line 236: its path, its
\* fresh context, and a goroutine that has not yet called ScanDirectory.
\* ctxErr is the error of the context while the goroutine waits; from the
\* call on the context is that of the call, and nothing reads it after the
\* return
NewScan(p) ==
  [path |-> p, ctxErr |-> Nil, phase |-> "pending",
   result |-> NilResult, err |-> Nil, heap |-> <<>>]

\* scanDirectoryAsync, lines 216-236, when earlier requests exist:
\* app.cancelFunc() cancels the context of the latest earlier request
ScanRequested ==
  /\ Len(scans) < MaxScans
  /\ \E p \in GuiPaths :
       LET n == Len(scans)
           prior == IF n > 0 /\ scans[n].phase = "pending"
                    THEN [scans EXCEPT ![n].ctxErr = cancelled(@)]
                    ELSE scans
       IN /\ scans' = Append(prior, NewScan(p))
          /\ statusLabel' = [text |-> "Scanning: %s", path |-> p]
          /\ IF n > 0 /\ active = n /\ pc \in {"call", "scanning"} /\ ctxErr = Nil
             THEN /\ ctxErr' = Canceled
                  /\ cancelAt' = polls
                  /\ doneAt' = [nodes |-> Len(nodes), lists |-> Len(readDirCalls)]
             ELSE UNCHANGED <<ctxErr, cancelAt, doneAt>>
  /\ UNCHANGED <<pc, config, path, dialogs, currentResult, treeData>>
  /\ UNCHANGED <<active, uiQueue, shownScan>>
  /\ UNCHANGED scanVars
  /\ UNCHANGED exportVars

\* the goroutine of a request reaches line 253 and calls ScanDirectory
GoroutineCall ==
  /\ pc = "idle"
  /\ active = 0
  /\ \E i \in 1..Len(scans) :
       /\ scans[i].phase = "pending"
       /\ active' = i
       /\ scans' = [scans EXCEPT ![i] = [@ EXCEPT !.phase = "running", !.ctxErr = Nil]]
       /\ path' = scans[i].path
       /\ ctxErr' = scans[i].ctxErr
       /\ cancelAt' = IF scans[i].ctxErr = Nil THEN -1 ELSE 0
  /\ pc' = "call"
  /\ nodes' = <<>>
  /\ stack' = <<>>
  /\ result' = NilResult
  /\ err' = Nil
  /\ statCalls' = <<>>
  /\ readDirCalls' = <<>>
  /\ polls' = 0
  /\ doneAt' = [nodes |-> 0, lists |-> 0]
  /\ UNCHANGED <<config, uiQueue, shownScan>>
  /\ UNCHANGED guiVars
  /\ UNCHANGED exportVars

\* ScanDirectory has returned to the goroutine, line 253: result and err
\* are the goroutine's own, the nodes are kept if the result points to them,
\* and nothing is left of the call
GoroutineReturned ==
  /\ pc = "returned"
  /\ active # 0
  /\ scans' = [scans EXCEPT ![active] =
                 [@ EXCEPT !.phase = "finished", !.result = result, !.err = err,
                           !.heap = IF result.isNil THEN <<>> ELSE nodes]]
  /\ active' = 0
  /\ pc' = "idle"
  /\ path' = <<>>
  /\ ctxErr' = Nil
  /\ nodes' = <<>>
  /\ stack' = <<>>
  /\ result' = NilResult
  /\ err' = Nil
  /\ statCalls' = <<>>
  /\ readDirCalls' = <<>>
  /\ polls' = 0
  /\ cancelAt' = -1
  /\ doneAt' = [nodes |-> 0, lists |-> 0]
  /\ UNCHANGED <<config, uiQueue, shownScan>>
  /\ UNCHANGED guiVars
  /\ UNCHANGED exportVars

\* the goroutine renders the tree, lines 255-258, and hands its completion
\* handler to fyne.Do, line 261
GoroutineFyneDo ==
  /\ \E i \in 1..Len(scans) :
       /\ scans[i].phase = "finished"
       /\ LET r == scans[i].result
              rendered == IF ~r.isNil /\ r.Root # 0
                          THEN [r EXCEPT !.TreeText = RenderTree(scans[i].heap, r.Root)]
                          ELSE r
          IN scans' = [scans EXCEPT ![i] = [@ EXCEPT !.phase = "queued",
                                                     !.result = rendered]]
       /\ uiQueue' = Append(uiQueue, i)
  /\ UNCHANGED <<pc, config, path, ctxErr, cancelAt, doneAt, active, shownScan>>
  /\ UNCHANGED scanVars
  /\ UNCHANGED guiVars
  /\ UNCHANGED exportVars

\* the main thread runs the oldest queued completion handler, lines 261-280,
\* with updateTreeDataSimple, lines 285-298
MainThreadDo ==
  /\ uiQueue # <<>>
  /\ LET i == Head(uiQueue)
         s == scans[i]
     IN /\ IF s.err # Nil
           THEN /\ statusLabel' = [text |-> completionOnError(s.err).status]
                /\ dialogs' = dialogs \o completionOnError(s.err).dialog
                /\ UNCHANGED <<currentResult, treeData, shownScan>>
           ELSE /\ currentResult' = s.result
                /\ treeData' = IF s.result.Root # 0
                               THEN buildTreeDataFromTreeNode(s.heap, s.result.Root)
                               ELSE [p \in {} |-> <<>>]
                /\ statusLabel' = [text |-> "Scanned %d items from: %s",
                                   count |-> s.result.NodeCount, path |-> s.path]
                /\ dialogs' = Append(dialogs, [title |-> "Success"])
                /\ shownScan' = i
        /\ scans' = [scans EXCEPT ![i].phase = "handled"]
  /\ uiQueue' = Tail(uiQueue)
  /\ UNCHANGED <<pc, config, path, ctxErr, cancelAt, doneAt, active>>
  /\ UNCHANGED scanVars
  /\ UNCHANGED exportVars

MaxExports == 1

\* what Save to File and Copy to Clipboard do with the result on display,
\* lines 317-321 and 351-355: without a result the "No Data" dialog, with
\* one its TreeText
exportText(cr) ==
  IF cr.isNil THEN NoText ELSE [set |-> TRUE, text |-> cr.TreeText]

\* handleCopyToClipboard, lines 350-364, the clipboard taking the content
handleCopyToClipboard ==
  /\ exports < MaxExports
  /\ exports' = exports + 1
  /\ IF exportText(currentResult) = NoText
     THEN /\ dialogs' = Append(dialogs, [title |-> "No Data"])
          /\ UNCHANGED clipboard
     ELSE /\ clipboard' = exportText(currentResult)
          /\ dialogs' = Append(dialogs, [title |-> "Success",
                                         message |-> "File tree copied to clipboard!"])
  /\ UNCHANGED <<pc, config, path, ctxErr, cancelAt, doneAt, written>>
  /\ UNCHANGED <<statusLabel, currentResult, treeData, scans, active, uiQueue, shownScan>>
  /\ UNCHANGED scanVars

\* handleSaveToFile, lines 316-347, the user choosing a file and the write
\* succeeding: the text written is that of the result on display when the
\* button was pressed
handleSaveToFile ==
  /\ exports < MaxExports
  /\ exports' = exports + 1
  /\ IF exportText(currentResult) = NoText
     THEN /\ dialogs' = Append(dialogs, [title |-> "No Data"])
          /\ UNCHANGED written
     ELSE /\ written' = exportText(currentResult)
          /\ dialogs' = Append(dialogs, [title |-> "Success",
                                         message |-> "File tree saved successfully!"])
  /\ UNCHANGED <<pc, config, path, ctxErr, cancelAt, doneAt, clipboard>>
  /\ UNCHANGED <<statusLabel, currentResult, treeData, scans, active, uiQueue, shownScan>>
  /\ UNCHANGED scanVars

\* the application as cmd/main.go builds it: config.DefaultConfig()
InitGui == InitWith({DefaultConfig})

NextGui ==
  \/ ScanRequested
  \/ GoroutineCall
  \/ DeadlineCtx
  \/ ScanDirectoryCall
  \/ ScanNodeEnter
  \/ ScanNodeList
  \/ ScanNodeLoop
  \/ ScanNodeVisit
  \/ ScanNodeResume
  \/ ScanDirectoryReturn
  \/ GoroutineReturned
  \/ GoroutineFyneDo
  \/ MainThreadDo
  \/ handleCopyToClipboard
  \/ handleSaveToFile

SpecGui == InitGui /\ [][NextGui]_vars

(***************************************************************************)
(* C19                                                                     *)
(***************************************************************************)
\* request i ran ScanDirectory to a result without error
ScanSucceeded(i) == scans[i].phase \in {"finished", "queued", "handled"} /\ scans[i].err = Nil

\* every goroutine has finished and every queued handler has run
AllHandled == active = 0 /\ uiQueue = <<>> /\ \A i \in 1..Len(scans) : scans[i].phase = "handled"

\* the latest request that succeeded (0: none did)
LatestSucceeded ==
  IF \E i \in 1..Len(scans) : ScanSucceeded(i)
  THEN CHOOSE i \in 1..Len(scans) : ScanSucceeded(i) /\ \A j \in (i+1)..Len(scans) : ~ScanSucceeded(j)
  ELSE 0

\* C19: the result on display is never replaced by the result of a request
\* older than the one on display, and once every goroutine and every queued
\* handler has run the result on display is that of the latest request that
\* succeeded
C19_LatestResultDisplayed ==
  /\ [](AllHandled => shownScan = LatestSucceeded)
  /\ [][shownScan' >= shownScan]_vars

\* two requests succeeded and both handlers have run
C19_BothSucceededHandled ==
  /\ AllHandled
  /\ Len(scans) >= 2
  /\ ScanSucceeded(1)
  /\ ScanSucceeded(2)

(***************************************************************************)
(* C22                                                                     *)
(***************************************************************************)
\* the tree of a scan that found nothing below its root
LoneRoot(p) ==
  <<[Path |-> p, Name |-> Base(p), IsDir |-> TRUE, Children |-> <<>>, Parent |-> 0]>>

\* the ScanResult of such a scan, as ScanDirectory returns it
LoneRootResult(p) ==
  [isNil |-> FALSE, RootPath |-> p, TreeText |-> <<>>, NodeCount |-> 1, Root |-> 1]

\* the scan was asked for a directory whose own path holds a reserved substring
ReservedRoot == path # <<>> /\ IsDirectoryPath(path) /\ Reserved(path)

\* C22: when the path handed to ScanDirectory holds a reserved substring,
\* every constructed child path holds it too: no entry of the root ever
\* becomes a node, no directory but the root is listed, and a scan that is
\* not cancelled succeeds with a root without children and NodeCount 1,
\* although the directory has entries that pass the hidden filter.
C22_ReservedRootIsEmpty ==
  (ReservedRoot /\ pc \in {"scanning", "returned"}) =>
    /\ nodes = LoneRoot(path)
    /\ \A k \in 1..Len(readDirCalls) : readDirCalls[k] = path
    /\ pc = "returned" =>
         /\ err # Nil => (CtxError(err) /\ cancelAt >= 0 /\ result.isNil)
         /\ err = Nil => (result = LoneRootResult(path) /\ readDirCalls = <<path>>)
         /\ cancelAt < 0 => err = Nil

\* the scan of Recovery, which holds a file and a directory, has succeeded
C22_Witness ==
  /\ pc = "returned"
  /\ err = Nil
  /\ path = sRecovery
  /\ ReadDir(path).err = Nil
  /\ Len(prepareEntries(config, ReadDir(path).entries)) = 2
  /\ result.NodeCount = 1
  /\ nodes[1].Children = <<>>

(***************************************************************************)
(* C23                                                                     *)
(***************************************************************************)
\* the root passes os.Stat and IsDir, and os.ReadDir of it fails
RootListingFails ==
  /\ path # <<>>
  /\ Stat(path).err = Nil
  /\ Stat(path).isDir
  /\ ReadDir(path).err # Nil

\* the root is a readable directory without entries
RootListingEmpty ==
  /\ path # <<>>
  /\ Stat(path).err = Nil
  /\ Stat(path).isDir
  /\ ReadDir(path).err = Nil
  /\ ReadDir(path).entries = <<>>

\* C23: when the root is a directory whose listing fails, ScanDirectory
\* returns no error once os.ReadDir was called (the only error it can still
\* return is that of a context found done by the first select): the result
\* has NodeCount 1 and a root without children, and it is the same function
\* of the path as the result for an empty directory.
C23_RootListingFailureSucceeds ==
  (pc = "returned" /\ (RootListingFails \/ RootListingEmpty)) =>
    /\ readDirCalls # <<>> =>
         /\ err = Nil
         /\ result = LoneRootResult(path)
         /\ nodes = LoneRoot(path)
         /\ readDirCalls = <<path>>
    /\ readDirCalls = <<>> => (CtxError(err) /\ cancelAt = 0 /\ result.isNil)

\* the scan of the unreadable directory u has returned successfully
C23_Witness ==
  /\ pc = "returned"
  /\ path = <<"u">>
  /\ RootListingFails
  /\ readDirCalls = <<path>>
  /\ err = Nil
  /\ result.NodeCount = 1
  /\ nodes[1].Children = <<>>

(***************************************************************************)
(* C21                                                                     *)
(***************************************************************************)
\* the main thread runs the completion handler of request Head(uiQueue)
HandlerStep == uiQueue # <<>> /\ uiQueue' = Tail(uiQueue)

\* Save to File or Copy to Clipboard is used
ExportStep == exports' # exports

\* the map from every node path of the tree to the paths of its children
PathsToChildren(heap) ==
  [p \in {heap[n].Path : n \in 1..Len(heap)} |->
     LET n == CHOOSE m \in 1..Len(heap) : heap[m].Path = p
     IN [k \in 1..Len(heap[n].Children) |-> heap[heap[n].Children[k]].Path]]

\* the text of the tree of request i
TextOf(i) == [set |-> TRUE, text |-> RenderTree(scans[i].heap, scans[i].result.Root)]

\* C21: the completion handler of a scan that ended with an error leaves
\* currentResult and treeData as they are; the handler of a successful scan
\* makes currentResult its result and treeData the map from every node path
\* of its tree to the ordered paths of the node's children; no other step
\* changes the two; and Save and Copy write the rendered text of the tree
\* of the request on display, or nothing while no scan has succeeded.
C21_ErrorKeepsDisplay ==
  [][ /\ HandlerStep =>
           LET s == scans[Head(uiQueue)] IN
             /\ s.err # Nil =>
                  /\ currentResult' = currentResult
                  /\ treeData' = treeData
                  /\ shownScan' = shownScan
             /\ s.err = Nil =>
                  /\ currentResult' = s.result
                  /\ ~currentResult'.isNil
                  /\ currentResult'.TreeText = RenderTree(s.heap, s.result.Root)
                  /\ treeData' = PathsToChildren(s.heap)
                  /\ shownScan' = Head(uiQueue)
      /\ ~HandlerStep => (currentResult' = currentResult /\ treeData' = treeData)
      /\ ExportStep =>
           IF shownScan = 0
           THEN clipboard' = clipboard /\ written' = written
           ELSE \/ clipboard' = TextOf(shownScan) /\ written' = written
                \/ written' = TextOf(shownScan) /\ clipboard' = clipboard
    ]_vars

\* request 1 scanned the example tree and is on display, the handler of
\* request 2, which ended with an error, has run, and Copy has then put the
\* text of request 1 on the clipboard
C21_Witness ==
  /\ Len(scans) = 2
  /\ scans[1].phase = "handled"
  /\ scans[1].path = sRoot
  /\ scans[1].err = Nil
  /\ scans[2].phase = "handled"
  /\ scans[2].err # Nil
  /\ shownScan = 1
  /\ statusLabel.text = "Scan failed"
  /\ currentResult = scans[1].result
  /\ Len(treeData[sRoot]) = 2
  /\ clipboard = [set |-> TRUE, text |-> ExampleText]

====
